---- MODULE Spec2Model ----
(***************************************************************************)
(* Model of the transcript extraction engine of scripts/utils.py:          *)
(* extract_claude_transcript_data, its cleaning passes (SanitizerSpec) and *)
(* its line loop with the final flushes (Spec).  A text is a sequence of   *)
(* one-character strings; characters outside ASCII are written by their    *)
(* code point ("U23FA" is the bullet glyph, "U23BF" the tool-result        *)
(* marker, "U2026" the ellipsis, "U2192" the arrow).                       *)
(***************************************************************************)
EXTENDS Integers, Sequences, FiniteSets

(***************************************************************************)
(* Characters                                                              *)
(***************************************************************************)

\* str.strip() and the regex class \s, on text the sanitizer lets through
WhiteSpace == {" ", "\t", "\n"}

\* the glyphs of the class [U23FA U273B U00B7 U273D U2736 U2733 U2722]
Glyphs == {"U23FA", "U273B", "U00B7", "U273D", "U2736", "U2733", "U2722"}

\* the tool-result marker
ResultMarker == "U23BF"

Digits == {"0", "1", "2", "3", "4", "5", "6", "7", "8", "9"}

\* the regex class \w
WordChars ==
    Digits \cup {"_"} \cup
    {"a", "b", "c", "d", "e", "f", "g", "h", "i", "j", "k", "l", "m",
     "n", "o", "p", "q", "r", "s", "t", "u", "v", "w", "x", "y", "z"} \cup
    {"A", "B", "C", "D", "E", "F", "G", "H", "I", "J", "K", "L", "M",
     "N", "O", "P", "Q", "R", "S", "T", "U", "V", "W", "X", "Y", "Z"}

(***************************************************************************)
(* Program constants                                                       *)
(***************************************************************************)

\* len(human_text) > 1
HumanMinLen == 1

\* len(ai_text) > 10
AgentMinLen == 10

\* len(content) > 5
ContentMinLen == 5

\* len(line) > 3
ContinuationMinLen == 3

\* result_content[:100]
PreviewLen == 100

(***************************************************************************)
(* String helpers                                                          *)
(***************************************************************************)

RECURSIVE LStrip(_)
\* s.lstrip(), and the \s* at the head of a pattern
LStrip(s) == IF s # <<>> /\ s[1] \in WhiteSpace THEN LStrip(Tail(s)) ELSE s

RECURSIVE RStrip(_)
\* s.rstrip()
RStrip(s) ==
    IF s # <<>> /\ s[Len(s)] \in WhiteSpace THEN RStrip(SubSeq(s, 1, Len(s) - 1)) ELSE s

\* s.strip()
Strip(s) == RStrip(LStrip(s))

\* s.startswith(p)
StartsWith(s, p) == Len(s) >= Len(p) /\ SubSeq(s, 1, Len(p)) = p

\* s[n:]
DropFirst(s, n) == IF Len(s) <= n THEN <<>> ELSE SubSeq(s, n + 1, Len(s))

\* s[:n]
TakeFirst(s, n) == IF Len(s) <= n THEN s ELSE SubSeq(s, 1, n)

\* p occurs in s at position i
OccursAt(s, p, i) == i >= 1 /\ i + Len(p) - 1 <= Len(s) /\ SubSeq(s, i, i + Len(p) - 1) = p

\* re.search of a literal
Contains(s, p) == \E i \in 1..Len(s) : OccursAt(s, p, i)

RECURSIVE JoinWith(_, _)
\* sep.join(parts)
JoinWith(parts, sep) ==
    IF parts = <<>> THEN <<>>
    ELSE IF Len(parts) = 1 THEN parts[1]
    ELSE parts[1] \o sep \o JoinWith(Tail(parts), sep)

(***************************************************************************)
(* Step 1: the cleaning passes.  Control characters are written by name:   *)
(* "BEL" is \x07, "\t" \x09, "\n" \x0A, "\r" \x0D, "ESC" \x1B, "DEL" \x7F  *)
(* and "U0085" the C1 control NEL.                                         *)
(***************************************************************************)

\* the printable ASCII characters, \x20 to \x7E, in the order of their codes
\* ("U0060" is the grave accent)
Ascii ==
    <<" ", "!", "\"", "#", "$", "%", "&", "'", "(", ")", "*", "+", ",", "-", ".", "/",
      "0", "1", "2", "3", "4", "5", "6", "7", "8", "9", ":", ";", "<", "=", ">", "?",
      "@", "A", "B", "C", "D", "E", "F", "G", "H", "I", "J", "K", "L", "M", "N", "O",
      "P", "Q", "R", "S", "T", "U", "V", "W", "X", "Y", "Z", "[", "\\", "]", "^", "_",
      "U0060", "a", "b", "c", "d", "e", "f", "g", "h", "i", "j", "k", "l", "m", "n", "o",
      "p", "q", "r", "s", "t", "u", "v", "w", "x", "y", "z", "{", "|", "}", "~">>

\* the printable ASCII characters of codes lo to hi
AsciiRange(lo, hi) == {Ascii[k - 31] : k \in lo..hi}

\* the codes of the control characters that have a name here
ControlCode ==
    [c \in {"BEL", "\t", "\n", "\r", "ESC", "DEL", "U0085"} |->
        CASE c = "BEL"   -> 7
          [] c = "\t"    -> 9
          [] c = "\n"    -> 10
          [] c = "\r"    -> 13
          [] c = "ESC"   -> 27
          [] c = "DEL"   -> 127
          [] c = "U0085" -> 133]

\* the class [\x00-\x08] alone
StrippedControlsLowest ==
    {c \in DOMAIN ControlCode : ControlCode[c] \in 0..8}

\* the class [\x00-\x08\x0B-\x1F\x7F-\x9F]
StrippedControls ==
    {c \in DOMAIN ControlCode :
        ControlCode[c] \in (0..8) \cup (11..31) \cup (127..159)}

\* the class of the box-drawing glyphs
BoxGlyphs ==
    {"U256D", "U256E", "U2502", "U2570", "U256F", "U2500", "U2550", "U2551",
     "U250C", "U2510", "U2514", "U2518", "U251C", "U2524", "U252C", "U2534",
     "U253C"}

\* [@-Z\\-_] : the character that ends a two-character escape sequence
EscFinals == AsciiRange(64, 90) \cup AsciiRange(92, 95)

\* [0-?] : parameter characters of a CSI sequence
CsiParameters == AsciiRange(48, 63)

\* [ -/] : intermediate characters of a CSI sequence
CsiIntermediates == AsciiRange(32, 47)

\* [@-~] : the character that ends a CSI sequence
CsiFinals == AsciiRange(64, 126)

RECURSIVE RunLen(_, _, _)
\* the length of the longest run of characters of class, in s from position i:
\* what class* and class+ take, the character after them being outside class
RunLen(s, i, class) ==
    IF i <= Len(s) /\ s[i] \in class THEN 1 + RunLen(s, i + 1, class) ELSE 0

\* the character of s at position i is c
CharAt(s, i, c) == i <= Len(s) /\ s[i] = c

\* \x1B(?:[@-Z\\-_]|\[[0-?]*[ -/]*[@-~]) matched at the head of s: the length
\* of the match, 0 for none
EscapeMatch(s) ==
    IF ~CharAt(s, 1, "ESC") \/ Len(s) < 2 THEN 0
    ELSE IF s[2] \in EscFinals THEN 2
    ELSE IF s[2] = "["
         THEN LET p == RunLen(s, 3, CsiParameters)
                  q == RunLen(s, 3 + p, CsiIntermediates)
              IN  IF 3 + p + q <= Len(s) /\ s[3 + p + q] \in CsiFinals
                  THEN 3 + p + q ELSE 0
         ELSE 0

\* \[\?[0-9]+[hl]
DecModeMatch(s) ==
    LET n == RunLen(s, 3, Digits)
    IN  IF /\ StartsWith(s, <<"[", "?">>)
           /\ n >= 1
           /\ (CharAt(s, 3 + n, "h") \/ CharAt(s, 3 + n, "l"))
        THEN 3 + n ELSE 0

\* \[38;2;[0-9]+;[0-9]+;[0-9]+m
RgbMatch(s) ==
    LET r == RunLen(s, 7, Digits)
        g == RunLen(s, 8 + r, Digits)
        b == RunLen(s, 9 + r + g, Digits)
    IN  IF /\ StartsWith(s, <<"[", "3", "8", ";", "2", ";">>)
           /\ r >= 1 /\ CharAt(s, 7 + r, ";")
           /\ g >= 1 /\ CharAt(s, 8 + r + g, ";")
           /\ b >= 1 /\ CharAt(s, 9 + r + g + b, "m")
        THEN 9 + r + g + b ELSE 0

\* an alternation of literals, tried in their order
LiteralMatch(s, literals) ==
    LET hits == {k \in 1..Len(literals) : StartsWith(s, literals[k])}
    IN  IF hits = {} THEN 0
        ELSE Len(literals[CHOOSE k \in hits : \A m \in hits : k <= m])

\* \[39m|\[49m
ResetLiterals == << <<"[", "3", "9", "m">>, <<"[", "4", "9", "m">> >>

\* \[1m|\[22m|\[2m|\[23m|\[3m|\[4m|\[24m|\[7m|\[27m
FormatLiterals ==
    << <<"[", "1", "m">>, <<"[", "2", "2", "m">>, <<"[", "2", "m">>,
       <<"[", "2", "3", "m">>, <<"[", "3", "m">>, <<"[", "4", "m">>,
       <<"[", "2", "4", "m">>, <<"[", "7", "m">>, <<"[", "2", "7", "m">> >>

\* \[[0-9]+m with class the digits, \[[0-9;]+m with class the digits and ";"
ColorMatch(s, class) ==
    LET n == RunLen(s, 2, class)
    IN  IF CharAt(s, 1, "[") /\ n >= 1 /\ CharAt(s, 2 + n, "m")
        THEN 2 + n ELSE 0

\* \]0;[^\\]*\\
TitleMatch(s) ==
    LET ends == {k \in 4..Len(s) : s[k] = "\\"}
    IN  IF StartsWith(s, <<"]", "0", ";">>) /\ ends # {}
        THEN CHOOSE k \in ends : \A m \in ends : k <= m
        ELSE 0

\* a pattern that is one character of a class
ClassMatch(s, class) == IF s # <<>> /\ s[1] \in class THEN 1 ELSE 0

\* the pattern of two spaces or more
SpacesMatch(s) ==
    LET n == RunLen(s, 1, {" "}) IN IF n >= 2 THEN n ELSE 0

\* \n\s*\n\s*\n+ : from a newline to the last newline of the run of
\* whitespace it opens, when the run holds two more newlines
BlankLinesMatch(s) ==
    LET w == RunLen(s, 1, WhiteSpace)
        more == {k \in 2..w : s[k] = "\n"}
    IN  IF CharAt(s, 1, "\n") /\ Cardinality(more) >= 2
        THEN CHOOSE k \in more : \A m \in more : m <= k
        ELSE 0

\* the re.sub calls of lines 635 to 659, in their order
Passes ==
    <<"escape", "dec mode", "rgb", "reset", "format", "color", "color list",
      "title", "control", "box", "artifact", "spaces", "blank lines">>

\* the pattern of a pass matched at the head of s: the length of the match,
\* 0 for none
MatchLen(s, pass) ==
    CASE pass = "escape"      -> EscapeMatch(s)
      [] pass = "dec mode"    -> DecModeMatch(s)
      [] pass = "rgb"         -> RgbMatch(s)
      [] pass = "reset"       -> LiteralMatch(s, ResetLiterals)
      [] pass = "format"      -> LiteralMatch(s, FormatLiterals)
      [] pass = "color"       -> ColorMatch(s, Digits)
      [] pass = "color list"  -> ColorMatch(s, Digits \cup {";"})
      [] pass = "title"       -> TitleMatch(s)
      [] pass = "control"     -> ClassMatch(s, StrippedControls)
      [] pass = "box"         -> ClassMatch(s, BoxGlyphs)
      [] pass = "artifact"    -> LiteralMatch(s, << <<"(", "B">> >>)
      [] pass = "spaces"      -> SpacesMatch(s)
      [] pass = "blank lines" -> BlankLinesMatch(s)

\* the replacement of a pass
Replacement(pass) ==
    CASE pass = "spaces"      -> <<" ">>
      [] pass = "blank lines" -> <<"\n", "\n">>
      [] OTHER                -> <<>>

RECURSIVE Sub(_, _)
\* re.sub(pattern, replacement, s): the matches are taken from the left and
\* do not overlap; the text a replacement leaves is not scanned again
Sub(s, pass) ==
    IF s = <<>> THEN <<>>
    ELSE LET n == MatchLen(s, pass)
         IN  IF n > 0
             THEN Replacement(pass) \o Sub(DropFirst(s, n), pass)
             ELSE <<s[1]>> \o Sub(Tail(s), pass)

RECURSIVE SubFrom(_, _)
\* the passes from the k-th on, one on the output of the other
SubFrom(s, k) ==
    IF k > Len(Passes) THEN s ELSE SubFrom(Sub(s, Passes[k]), k + 1)

\* cleaned_content as a function of content
Sanitized(s) == SubFrom(s, 1)

(***************************************************************************)
(* status_pattern                                                          *)
(***************************************************************************)

\* the alternatives of status_pattern that are literal text
StatusLiterals ==
    { <<".", ".", ".">>,
      <<"U2026">>,
      <<"i", "n", "g", "U2026">>,
      <<"i", "n", "g", ".", ".", ".">>,
      <<"e", "s", "c", " ", "t", "o", " ", "i", "n", "t", "e", "r", "r", "u", "p", "t">>,
      <<"F", "o", "r", "g", "i", "n", "g">>,
      <<"T", "r", "a", "n", "s", "f", "i", "g", "u", "r", "i", "n", "g">>,
      <<"I", "d", "e", "a", "t", "i", "n", "g">>,
      <<"C", "o", "m", "b", "o", "b", "u", "l", "a", "t", "i", "n", "g">>,
      <<"C", "r", "u", "n", "c", "h", "i", "n", "g">>,
      <<"A", "c", "c", "o", "m", "p", "l", "i", "s", "h", "i", "n", "g">>,
      <<"W", "a", "i", "t", "i", "n", "g">>,
      <<"R", "u", "n", "n", "i", "n", "g">>,
      <<"T", "o", "t", "a", "l", " ", "c", "o", "s", "t">>,
      <<"T", "o", "t", "a", "l", " ", "d", "u", "r", "a", "t", "i", "o", "n">>,
      <<"U", "s", "a", "g", "e", " ", "b", "y", " ", "m", "o", "d", "e", "l">>,
      <<"c", "t", "r", "l", "+", "o", " ", "t", "o", " ", "e", "x", "p", "a", "n", "d">>,
      <<"N", "o", " ", "c", "o", "n", "t", "e", "n", "t">>,
      <<"E", "r", "r", "o", "r", ":">>,
      <<"D", "o", "n", "e", " ", "(">> }

\* \(.+\s+word\) : "(", one or more characters of the line, whitespace, word
ParenCount(s, word) ==
    \E i \in 1..Len(s) : s[i] = "(" /\ \E k \in (i + 2)..Len(s) :
        /\ \A m \in (i + 1)..(k - 1) : s[m] # "\n"
        /\ s[k] \in WhiteSpace
        /\ OccursAt(s, word, k + 1)

\* pre \d+ suf
DigitRun(s, pre, suf) ==
    \E i \in 1..Len(s) : OccursAt(s, pre, i) /\ \E j \in (i + Len(pre))..Len(s) :
        /\ \A m \in (i + Len(pre))..j : s[m] \in Digits
        /\ OccursAt(s, suf, j + 1)

\* re.search(status_pattern, s)
StatusNoise(s) ==
    \/ \E p \in StatusLiterals : Contains(s, p)
    \/ ParenCount(s, <<"t", "o", "k", "e", "n", "s", ")">>)
    \/ ParenCount(s, <<"l", "i", "n", "e", "s", ")">>)
    \/ DigitRun(s, <<"F", "o", "u", "n", "d", " ">>, <<" ", "f", "i", "l", "e", "s">>)
    \/ DigitRun(s, <<"F", "o", "u", "n", "d", " ">>, <<" ", "l", "i", "n", "e", "s">>)
    \/ DigitRun(s, <<"F", "o", "u", "n", "d", " ">>, <<" ", "m", "a", "t", "c", "h", "e", "s">>)
    \/ DigitRun(s, <<".", ".", ".", " ", "+">>, <<" ", "l", "i", "n", "e", "s">>)

(***************************************************************************)
(* Line classification                                                     *)
(***************************************************************************)

\* line.startswith('> ')
IsHumanStart(line) == StartsWith(line, <<">", " ">>)

\* re.match(r'^[glyphs]\s', line)
IsGlyphStart(line) == Len(line) >= 2 /\ line[1] \in Glyphs /\ line[2] \in WhiteSpace

\* re.match(r'^[glyphs]', line)
HasGlyph(line) == Len(line) >= 1 /\ line[1] \in Glyphs

\* line.strip().startswith(marker)
HasResultMarker(line) == StartsWith(Strip(line), <<ResultMarker>>)

\* line[2:].strip()
PromptText(line) == Strip(DropFirst(line, 2))

\* re.sub(r'^[glyphs]\s*', '', line).strip()
GlyphContent(line) == Strip(LStrip(Tail(line)))

\* line.strip()[1:].strip()
ResultContent(line) == Strip(DropFirst(Strip(line), 1))

\* ContentKept without the status-noise test
ContentKeptLengthOnly(content) == Len(content) > ContentMinLen

\* len(content) > 5 and not re.search(status_pattern, content)
ContentKept(content) == Len(content) > ContentMinLen /\ ~StatusNoise(content)

\* the position of the "(" that ends the name, for a content of the shape
\* ^(\w+)\(([^)]*)\)$ ; 0 when the content has not that shape
OpenParen(content) ==
    LET ok == {k \in 2..(Len(content) - 1) :
                 /\ content[k] = "("
                 /\ \A m \in 1..(k - 1) : content[m] \in WordChars
                 /\ content[Len(content)] = ")"
                 /\ \A m \in (k + 1)..(Len(content) - 1) : content[m] # ")"}
    IN  IF ok = {} THEN 0 ELSE CHOOSE k \in ok : TRUE

\* ToolShape for the pattern ^(\w+)\((.*)\)$, whose parameters may hold ")"
ToolShapeLoose(content) ==
    \E k \in 2..(Len(content) - 1) :
        /\ content[k] = "("
        /\ \A m \in 1..(k - 1) : content[m] \in WordChars
        /\ content[Len(content)] = ")"

\* re.match(r'^(\w+)\(([^)]*)\)$', content)
ToolShape(content) == OpenParen(content) # 0

\* tool_match.group(1)
ToolName(content) == SubSeq(content, 1, OpenParen(content) - 1)

\* tool_match.group(2)
ToolParameters(content) == SubSeq(content, OpenParen(content) + 1, Len(content) - 1)

\* f"{tool_name}({parameters})"
CallText(name, parameters) == name \o <<"(">> \o parameters \o <<")">>

\* NewToolCall with the preview left without its parameters
NewToolCallNameOnly(content) ==
    [tool_name  |-> ToolName(content),
     parameters |-> ToolParameters(content),
     output     |-> <<>>,
     content    |-> ToolName(content)]

\* the dict of a tool call that has just started
NewToolCall(content) ==
    [tool_name  |-> ToolName(content),
     parameters |-> ToolParameters(content),
     output     |-> <<>>,
     content    |-> CallText(ToolName(content), ToolParameters(content))]

\* the tool call after a tool-result line with remainder rc
WithResult(tc, rc) ==
    [tc EXCEPT
       !.output  = IF tc.output # <<>> THEN tc.output \o <<"\n">> \o rc ELSE rc,
       !.content = CallText(tc.tool_name, tc.parameters) \o <<" ", "U2192", " ">>
                     \o TakeFirst(rc, PreviewLen)
                     \o (IF Len(rc) > PreviewLen THEN <<".", ".", ".">> ELSE <<>>)]

\* JoinedText with the fragments joined by nothing
JoinedTextNoSpace(parts) == Strip(JoinWith(parts, <<>>))

\* ' '.join(parts).strip()
JoinedText(parts) == Strip(JoinWith(parts, <<" ">>))

\* len(human_text) > 1
HumanKeeps(text) == Len(text) > HumanMinLen

\* AgentKeeps without the status-noise test
AgentKeepsLengthOnly(text) == Len(text) > AgentMinLen

\* len(ai_text) > 10 and not re.search(status_pattern, ai_text)
AgentKeeps(text) == Len(text) > AgentMinLen /\ ~StatusNoise(text)

\* HumanContinues without the test that a human prompt is open
HumanContinuesUnopened(line, human, ai) ==
    \/ StartsWith(line, <<" ", " ">>)
    \/ /\ ~StartsWith(line, <<">">>)
       /\ ~HasGlyph(line)
       /\ ~HasResultMarker(line)
       /\ ai = <<>>
       /\ Len(line) > ContinuationMinLen

\* the condition of the human-continuation branch
HumanContinues(line, human, ai) ==
    /\ human # <<>>
    /\ \/ StartsWith(line, <<" ", " ">>)
       \/ /\ ~StartsWith(line, <<">">>)
          /\ ~HasGlyph(line)
          /\ ~HasResultMarker(line)
          /\ ai = <<>>
          /\ Len(line) > ContinuationMinLen

\* AgentContinues without the status-noise test
AgentContinuesNoisy(line, ai) ==
    /\ ai # <<>>
    /\ ~StartsWith(line, <<">">>)
    /\ ~HasGlyph(line)
    /\ ~HasResultMarker(line)
    /\ Len(line) > ContinuationMinLen

\* the condition of the agent-continuation branch
AgentContinues(line, ai) ==
    /\ ai # <<>>
    /\ ~StartsWith(line, <<">">>)
    /\ ~HasGlyph(line)
    /\ ~HasResultMarker(line)
    /\ ~StatusNoise(line)
    /\ Len(line) > ContinuationMinLen

\* AppendNarrative that skips a fragment the accumulator already holds
AppendNarrativeOnce(ai, content) ==
    IF \E i \in 1..Len(ai) : ai[i] = content THEN ai ELSE Append(ai, content)

\* current_ai.append(content)
AppendNarrative(ai, content) == Append(ai, content)

\* a turn of the transcript
Turn(role, content) == [role |-> role, content |-> content]

\* [item["content"] for item in transcript if item["role"] == role]
ContentsOf(tr, role) ==
    LET picked == SelectSeq(tr, LAMBDA t : t.role = role)
    IN  [i \in 1..Len(picked) |-> picked[i].content]

(***************************************************************************)
(* Input: the cleaned lines the segmenter is run on                        *)
(***************************************************************************)

\* the longest input checked, in lines
MaxLines == 3

\* a tool-result line whose remainder is one character longer than the preview
LongResultLine == <<"U23BF", " ">> \o [i \in 1..(PreviewLen + 1) |-> "a"]

\* the lines an input is made of
Catalog ==
    { <<>>,
      <<">", " ", "R", "e", "a", "d", "(", "x", ")">>,
      <<">", " ", "y">>,
      <<">", "a", "b", "c">>,
      <<"U23FA", " ", "R", "e", "a", "d", "(", "x", ")">>,
      <<"U23FA", " ", "l", "s", "(", "a", ")">>,
      <<"U23FA", " ", "R", "e", "a", "d", "(", "a", "(", "b", ")", ")">>,
      <<"U23FA", " ", "R", "u", "n", "n", "i", "n", "g", "U2026">>,
      <<"U23FA", " ", "B", "a", "s", "h", "(", "R", "u", "n", "n", "i", "n", "g", ")">>,
      <<"U23FA", " ", "H", "e", "l", "l", "o", "!">>,
      <<"U23FA", " ", "t", "o", "k", "e", "n", "s", ")", " ", "(", "a">>,
      <<"U273B", " ", "I", " ", "w", "i", "l", "l", " ", "f", "i", "x", " ", "i", "t">>,
      <<"U23BF", " ", "4", "2", " ", "l", "i", "n", "e", "s">>,
      <<"U23BF">>,
      LongResultLine,
      <<"p", "l", "a", "i", "n", " ", "t", "e", "x", "t">>,
      <<"w", "a", "i", "t", ".", ".", ".">>,
      <<" ", "o", "k">> }

(***************************************************************************)
(* State                                                                   *)
(***************************************************************************)

VARIABLES
    content,            \* the text of the file, as f.read() returned it
    cleaned_content,    \* the text after the cleaning passes
    lines,              \* the lines read so far, as they were before line.strip()
    pc,                 \* "read" after f.read(), "cleaned" after the cleaning
                        \* passes, "loop" inside the for loop, "done" after
                        \* the return
    transcript,         \* list of turns
    seen_interactions,  \* set of contents already emitted
    current_human,      \* list of fragments of the open human prompt
    current_ai,         \* list of fragments of the open agent narrative
    current_tool_call,  \* <<>> for None, <<tc>> for the tool call in flight
    tool_calls,         \* list of finished tool calls
    result,             \* <<>> before the return, <<the returned dict>> after
    origin              \* history: the index in lines of the line that opened
                        \* each accumulator (0 for none), and for each turn of
                        \* the transcript the index of the line that opened
                        \* the accumulator it was emitted from

vars == <<content, cleaned_content, lines, pc, transcript, seen_interactions,
          current_human, current_ai, current_tool_call, tool_calls, result,
          origin>>

\* the state of the segmenter before its first line
Init ==
    /\ content = <<>>
    /\ cleaned_content = <<>>
    /\ lines = <<>>
    /\ pc = "loop"
    /\ transcript = <<>>
    /\ seen_interactions = {}
    /\ current_human = <<>>
    /\ current_ai = <<>>
    /\ current_tool_call = <<>>
    /\ tool_calls = <<>>
    /\ result = <<>>
    /\ origin = [turns |-> <<>>, human |-> 0, ai |-> 0, tool |-> 0]

\* the for loop takes the next line l of the input
Read(l) ==
    /\ pc = "loop"
    /\ Len(lines) < MaxLines
    /\ lines' = Append(lines, l)
    /\ UNCHANGED <<content, cleaned_content, pc, result>>

\* the opening lines of the turns the step has added to the transcript: a
\* step adds at most one turn of each role
NewTurnOrigins ==
    LET added == SubSeq(transcript', Len(transcript) + 1, Len(transcript'))
    IN  [i \in 1..Len(added) |->
           CASE added[i].role = "human"     -> origin.human
             [] added[i].role = "tool_call" -> origin.tool
             [] added[i].role = "agent"     -> origin.ai]

(***************************************************************************)
(* The conditions of the if/elif chain of the loop body: each holds when   *)
(* its own test holds and the tests before it do not                       *)
(***************************************************************************)

\* if not line: continue
TakesBlank(l) == Strip(l) = <<>>

\* if line.startswith('> '):
TakesHumanStart(l) ==
    /\ Strip(l) # <<>>
    /\ IsHumanStart(Strip(l))

\* elif re.match(r'^[glyphs]\s', line):
TakesAgentStart(l) ==
    /\ Strip(l) # <<>>
    /\ ~IsHumanStart(Strip(l))
    /\ IsGlyphStart(Strip(l))

\* elif line.strip().startswith(marker) and current_tool_call:
TakesToolResult(l) ==
    /\ Strip(l) # <<>>
    /\ ~IsHumanStart(Strip(l))
    /\ ~IsGlyphStart(Strip(l))
    /\ HasResultMarker(Strip(l))
    /\ current_tool_call # <<>>

\* elif current_human and (...):
TakesHumanContinuation(l) ==
    /\ Strip(l) # <<>>
    /\ ~IsHumanStart(Strip(l))
    /\ ~IsGlyphStart(Strip(l))
    /\ ~(HasResultMarker(Strip(l)) /\ current_tool_call # <<>>)
    /\ HumanContinues(Strip(l), current_human, current_ai)

\* elif (current_ai and ...):
TakesAgentContinuation(l) ==
    /\ Strip(l) # <<>>
    /\ ~IsHumanStart(Strip(l))
    /\ ~IsGlyphStart(Strip(l))
    /\ ~(HasResultMarker(Strip(l)) /\ current_tool_call # <<>>)
    /\ ~HumanContinues(Strip(l), current_human, current_ai)
    /\ AgentContinues(Strip(l), current_ai)

\* TakesNothing for a chain whose tool-result test does not ask for a tool
\* call in flight: a tool-result line without one is then taken by no branch
\* and is not dropped either
TakesNothingUnlessMarked(l) ==
    /\ Strip(l) # <<>>
    /\ ~IsHumanStart(Strip(l))
    /\ ~IsGlyphStart(Strip(l))
    /\ ~HasResultMarker(Strip(l))
    /\ ~HumanContinues(Strip(l), current_human, current_ai)
    /\ ~AgentContinues(Strip(l), current_ai)

\* no test of the chain holds: the loop goes on to the next line
TakesNothing(l) ==
    /\ Strip(l) # <<>>
    /\ ~IsHumanStart(Strip(l))
    /\ ~IsGlyphStart(Strip(l))
    /\ ~(HasResultMarker(Strip(l)) /\ current_tool_call # <<>>)
    /\ ~HumanContinues(Strip(l), current_human, current_ai)
    /\ ~AgentContinues(Strip(l), current_ai)

(***************************************************************************)
(* The branches of the loop body                                           *)
(***************************************************************************)

\* if not line: continue
SkipBlank(l) ==
    /\ Read(l)
    /\ TakesBlank(l)
    /\ UNCHANGED <<transcript, seen_interactions, current_human, current_ai,
                   current_tool_call, tool_calls, origin>>

\* HumanStart for a branch that also closes the tool call in flight
HumanStartClosingCall(l) ==
    LET line == Strip(l)
        ai_text == JoinedText(current_ai)
    IN  /\ Read(l)
        /\ TakesHumanStart(l)
        /\ IF current_ai # <<>> /\ AgentKeeps(ai_text)
           THEN /\ transcript' = IF ai_text \notin seen_interactions
                                 THEN Append(transcript, Turn("agent", ai_text))
                                 ELSE transcript
                /\ seen_interactions' = seen_interactions \cup {ai_text}
           ELSE UNCHANGED <<transcript, seen_interactions>>
        /\ current_ai' = <<>>
        /\ current_human' = <<PromptText(line)>>
        /\ tool_calls' = tool_calls \o current_tool_call
        /\ current_tool_call' = <<>>
        /\ origin' = [turns |-> origin.turns \o NewTurnOrigins,
                      human |-> Len(lines'),
                      ai    |-> 0,
                      tool  |-> 0]

\* HumanStart for a branch that flushes the open human prompt before it
\* starts the new one
HumanStartFlushingHuman(l) ==
    LET line == Strip(l)
        ai_text == JoinedText(current_ai)
        human_text == JoinedText(current_human)
        emit_human == current_human # <<>> /\ HumanKeeps(human_text)
        emit_ai == current_ai # <<>> /\ AgentKeeps(ai_text)
        t1 == IF emit_human /\ human_text \notin seen_interactions
              THEN Append(transcript, Turn("human", human_text))
              ELSE transcript
        s1 == IF emit_human THEN seen_interactions \cup {human_text}
              ELSE seen_interactions
    IN  /\ Read(l)
        /\ TakesHumanStart(l)
        /\ transcript' = IF emit_ai /\ ai_text \notin s1
                         THEN Append(t1, Turn("agent", ai_text))
                         ELSE t1
        /\ seen_interactions' = IF emit_ai THEN s1 \cup {ai_text} ELSE s1
        /\ current_ai' = <<>>
        /\ current_human' = <<PromptText(line)>>
        /\ UNCHANGED <<current_tool_call, tool_calls>>
        /\ origin' = [turns |-> origin.turns \o NewTurnOrigins,
                      human |-> Len(lines'),
                      ai    |-> 0,
                      tool  |-> origin.tool]

\* HumanStart for a branch that leaves the agent accumulator as it is
HumanStartKeepingAgent(l) ==
    LET line == Strip(l)
        ai_text == JoinedText(current_ai)
    IN  /\ Read(l)
        /\ TakesHumanStart(l)
        /\ IF current_ai # <<>> /\ AgentKeeps(ai_text)
           THEN /\ transcript' = IF ai_text \notin seen_interactions
                                 THEN Append(transcript, Turn("agent", ai_text))
                                 ELSE transcript
                /\ seen_interactions' = seen_interactions \cup {ai_text}
           ELSE UNCHANGED <<transcript, seen_interactions>>
        /\ current_human' = <<PromptText(line)>>
        /\ UNCHANGED <<current_ai, current_tool_call, tool_calls>>
        /\ origin' = [turns |-> origin.turns \o NewTurnOrigins,
                      human |-> Len(lines'),
                      ai    |-> origin.ai,
                      tool  |-> origin.tool]

\* if line.startswith('> '):
HumanStart(l) ==
    LET line == Strip(l)
        ai_text == JoinedText(current_ai)
    IN  /\ Read(l)
        /\ TakesHumanStart(l)
        /\ IF current_ai # <<>> /\ AgentKeeps(ai_text)
           THEN /\ transcript' = IF ai_text \notin seen_interactions
                                 THEN Append(transcript, Turn("agent", ai_text))
                                 ELSE transcript
                /\ seen_interactions' = seen_interactions \cup {ai_text}
           ELSE UNCHANGED <<transcript, seen_interactions>>
        /\ current_ai' = <<>>
        /\ current_human' = <<PromptText(line)>>
        /\ UNCHANGED <<current_tool_call, tool_calls>>
        /\ origin' = [turns |-> origin.turns \o NewTurnOrigins,
                      human |-> Len(lines'),
                      ai    |-> 0,
                      tool  |-> origin.tool]

\* AgentStart for a branch that closes the tool call in flight only when the
\* content of the line is kept
AgentStartClosingWhenKept(l) ==
    LET line == Strip(l)
        human_text == JoinedText(current_human)
        emit_human == current_human # <<>> /\ HumanKeeps(human_text)
        t1 == IF emit_human /\ human_text \notin seen_interactions
              THEN Append(transcript, Turn("human", human_text))
              ELSE transcript
        s1 == IF emit_human THEN seen_interactions \cup {human_text}
              ELSE seen_interactions
        tc == current_tool_call[1]
        line_content == GlyphContent(line)
        closes == current_tool_call # <<>> /\ ContentKept(line_content)
        t2 == IF closes /\ tc.content \notin s1
              THEN Append(t1, Turn("tool_call", tc.content))
              ELSE t1
        s2 == IF closes THEN s1 \cup {tc.content} ELSE s1
    IN  /\ Read(l)
        /\ TakesAgentStart(l)
        /\ transcript' = t2
        /\ seen_interactions' = s2
        /\ current_human' = <<>>
        /\ IF ContentKept(line_content)
           THEN /\ tool_calls' = tool_calls \o current_tool_call
                /\ IF ToolShape(line_content)
                   THEN /\ current_tool_call' = <<NewToolCall(line_content)>>
                        /\ UNCHANGED current_ai
                   ELSE /\ current_tool_call' = <<>>
                        /\ current_ai' = AppendNarrative(current_ai, line_content)
           ELSE UNCHANGED <<tool_calls, current_tool_call, current_ai>>
        /\ origin' = [turns |-> origin.turns \o NewTurnOrigins,
                      human |-> 0,
                      ai    |-> IF current_ai' = <<>> THEN 0
                                ELSE IF current_ai = <<>> THEN Len(lines')
                                ELSE origin.ai,
                      tool  |-> IF ~ContentKept(line_content) THEN origin.tool
                                ELSE IF current_tool_call' = <<>> THEN 0
                                ELSE Len(lines')]

\* elif re.match(r'^[glyphs]\s', line):
AgentStart(l) ==
    LET line == Strip(l)
        human_text == JoinedText(current_human)
        emit_human == current_human # <<>> /\ HumanKeeps(human_text)
        t1 == IF emit_human /\ human_text \notin seen_interactions
              THEN Append(transcript, Turn("human", human_text))
              ELSE transcript
        s1 == IF emit_human THEN seen_interactions \cup {human_text}
              ELSE seen_interactions
        tc == current_tool_call[1]
        t2 == IF current_tool_call # <<>> /\ tc.content \notin s1
              THEN Append(t1, Turn("tool_call", tc.content))
              ELSE t1
        s2 == IF current_tool_call # <<>> THEN s1 \cup {tc.content} ELSE s1
        line_content == GlyphContent(line)
    IN  /\ Read(l)
        /\ TakesAgentStart(l)
        /\ transcript' = t2
        /\ seen_interactions' = s2
        /\ current_human' = <<>>
        /\ tool_calls' = tool_calls \o current_tool_call
        /\ IF ContentKept(line_content)
           THEN IF ToolShape(line_content)
                THEN /\ current_tool_call' = <<NewToolCall(line_content)>>
                     /\ UNCHANGED current_ai
                ELSE /\ current_tool_call' = <<>>
                     /\ current_ai' = AppendNarrative(current_ai, line_content)
           ELSE /\ current_tool_call' = <<>>
                /\ UNCHANGED current_ai
        /\ origin' = [turns |-> origin.turns \o NewTurnOrigins,
                      human |-> 0,
                      ai    |-> IF current_ai' = <<>> THEN 0
                                ELSE IF current_ai = <<>> THEN Len(lines')
                                ELSE origin.ai,
                      tool  |-> IF current_tool_call' = <<>> THEN 0
                                ELSE Len(lines')]

\* elif line.strip().startswith(marker) and current_tool_call:
ToolResult(l) ==
    LET line == Strip(l)
    IN  /\ Read(l)
        /\ TakesToolResult(l)
        /\ current_tool_call' = <<WithResult(current_tool_call[1], ResultContent(line))>>
        /\ UNCHANGED <<transcript, seen_interactions, current_human, current_ai,
                       tool_calls, origin>>

\* elif current_human and (...):
HumanContinuation(l) ==
    LET line == Strip(l)
    IN  /\ Read(l)
        /\ TakesHumanContinuation(l)
        /\ current_human' = Append(current_human, Strip(line))
        /\ UNCHANGED <<transcript, seen_interactions, current_ai,
                       current_tool_call, tool_calls, origin>>

\* elif (current_ai and ...):
AgentContinuation(l) ==
    LET line == Strip(l)
    IN  /\ Read(l)
        /\ TakesAgentContinuation(l)
        /\ current_ai' = Append(current_ai, line)
        /\ UNCHANGED <<transcript, seen_interactions, current_human,
                       current_tool_call, tool_calls, origin>>

\* no branch of the if/elif chain takes the line
Dropped(l) ==
    /\ Read(l)
    /\ TakesNothing(l)
    /\ UNCHANGED <<transcript, seen_interactions, current_human, current_ai,
                   current_tool_call, tool_calls, origin>>

(***************************************************************************)
(* After the loop: "Handle any remaining content", and the return          *)
(***************************************************************************)

\* the transcript after the three final flushes; seen_interactions is not updated
FinalTranscript ==
    LET human_text == JoinedText(current_human)
        t1 == IF /\ current_human # <<>>
                 /\ HumanKeeps(human_text)
                 /\ human_text \notin seen_interactions
              THEN Append(transcript, Turn("human", human_text))
              ELSE transcript
        t2 == IF /\ current_tool_call # <<>>
                 /\ current_tool_call[1].content \notin seen_interactions
              THEN Append(t1, Turn("tool_call", current_tool_call[1].content))
              ELSE t1
        ai_text == JoinedText(current_ai)
    IN  IF /\ current_ai # <<>>
           /\ AgentKeeps(ai_text)
           /\ ai_text \notin seen_interactions
        THEN Append(t2, Turn("agent", ai_text))
        ELSE t2

\* ResultOf with tool_call_count counted on the turns of the transcript
ResultOfCountingTurns(tr, tcs) ==
    [transcript      |-> tr,
     human_inputs    |-> ContentsOf(tr, "human"),
     ai_responses    |-> ContentsOf(tr, "agent"),
     tool_calls      |-> tcs,
     human_count     |-> Len(ContentsOf(tr, "human")),
     ai_count        |-> Len(ContentsOf(tr, "agent")),
     tool_call_count |-> Len(ContentsOf(tr, "tool_call"))]

\* the returned dict
ResultOf(tr, tcs) ==
    [transcript      |-> tr,
     human_inputs    |-> ContentsOf(tr, "human"),
     ai_responses    |-> ContentsOf(tr, "agent"),
     tool_calls      |-> tcs,
     human_count     |-> Len(ContentsOf(tr, "human")),
     ai_count        |-> Len(ContentsOf(tr, "agent")),
     tool_call_count |-> Len(tcs)]

\* Finish for an end of input that does not append the tool call in flight
FinishLeavingCall ==
    /\ pc = "loop"
    /\ pc' = "done"
    /\ transcript' = FinalTranscript
    /\ tool_calls' = tool_calls
    /\ result' = <<ResultOf(transcript', tool_calls')>>
    /\ origin' = [origin EXCEPT !.turns = @ \o NewTurnOrigins]
    /\ UNCHANGED <<content, cleaned_content, lines, seen_interactions,
                   current_human, current_ai, current_tool_call>>

\* the input ends: final flushes and return
Finish ==
    /\ pc = "loop"
    /\ pc' = "done"
    /\ transcript' = FinalTranscript
    /\ tool_calls' = tool_calls \o current_tool_call
    /\ result' = <<ResultOf(transcript', tool_calls')>>
    /\ origin' = [origin EXCEPT !.turns = @ \o NewTurnOrigins]
    /\ UNCHANGED <<content, cleaned_content, lines, seen_interactions,
                   current_human, current_ai, current_tool_call>>

Next ==
    \/ \E l \in Catalog : SkipBlank(l)
    \/ \E l \in Catalog : HumanStart(l)
    \/ \E l \in Catalog : AgentStart(l)
    \/ \E l \in Catalog : ToolResult(l)
    \/ \E l \in Catalog : HumanContinuation(l)
    \/ \E l \in Catalog : AgentContinuation(l)
    \/ \E l \in Catalog : Dropped(l)
    \/ Finish

Spec == Init /\ [][Next]_vars

(***************************************************************************)
(* The cleaning passes as a step of their own, on the text of a file       *)
(***************************************************************************)

\* the longest text checked, in pieces
MaxPieces == 3

\* the pieces a text is made of: a control character that opens escape
\* sequences, the parts and the whole of the sequences the passes look for,
\* whitespace, a box-drawing glyph and a letter
RawPieces ==
    { <<"ESC">>,
      <<"[">>,
      <<"1", "m">>,
      <<"5">>,
      <<";">>,
      <<"(">>,
      <<"B">>,
      <<" ">>,
      <<"\t">>,
      <<"\n">>,
      <<"U2502">>,
      <<"a">>,
      <<"[", "?", "2", "5", "l">>,
      <<"[", "3", "8", ";", "2", ";", "2", "1", "5", ";", "1", "1", "9", ";", "8", "7", "m">>,
      <<"[", "3", "9", "m">>,
      <<"]", "0", ";", "t", "\\">> }

\* the texts of at most MaxPieces pieces
RawInputs ==
    {JoinWith(p, <<>>) : p \in UNION {[1..n -> RawPieces] : n \in 0..MaxPieces}}

\* the state after f.read()
SanitizerInit ==
    /\ content \in RawInputs
    /\ cleaned_content = <<>>
    /\ lines = <<>>
    /\ pc = "read"
    /\ transcript = <<>>
    /\ seen_interactions = {}
    /\ current_human = <<>>
    /\ current_ai = <<>>
    /\ current_tool_call = <<>>
    /\ tool_calls = <<>>
    /\ result = <<>>
    /\ origin = [turns |-> <<>>, human |-> 0, ai |-> 0, tool |-> 0]

\* Step 1: cleaned_content is content after the re.sub passes
Sanitize ==
    /\ pc = "read"
    /\ pc' = "cleaned"
    /\ cleaned_content' = Sanitized(content)
    /\ UNCHANGED <<content, lines, transcript, seen_interactions, current_human,
                   current_ai, current_tool_call, tool_calls, result, origin>>

SanitizerNext == Sanitize

SanitizerSpec == SanitizerInit /\ [][SanitizerNext]_vars

(***************************************************************************)
(* Vocabulary of the properties                                            *)
(***************************************************************************)

\* the line the step has just read, when the step is an iteration of the loop
ReadsLine(l) == lines' = Append(lines, l)

\* l is an agent-or-tool-call start line
IsAgentStartLine(l) == IsGlyphStart(Strip(l))

\* l is a human-prompt start line
IsHumanStartLine(l) == IsHumanStart(Strip(l))

\* the positions of the turns of role r in tr
TurnsOf(tr, r) == {i \in 1..Len(tr) : tr[i].role = r}

(***************************************************************************)
(* C1                                                                      *)
(***************************************************************************)

\* C1: no two turns of the returned transcript have identical content,
\* whatever their roles, mid-stream or at the end-of-input flush.
C1_NoDuplicateContent ==
    pc = "done" =>
        \A i, j \in 1..Len(result[1].transcript) :
            i # j => result[1].transcript[i].content # result[1].transcript[j].content

(***************************************************************************)
(* C2                                                                      *)
(***************************************************************************)

\* C2: every turn appended to the transcript has non-empty content that passes
\* its role's filter: a human turn has at least 2 characters, an agent turn has
\* more than 10 characters and does not match the status-noise pattern.
C2_TurnsPassFilter ==
    \A i \in 1..Len(transcript) :
        /\ transcript[i].content # <<>>
        /\ transcript[i].role \in {"human", "agent", "tool_call"}
        /\ transcript[i].role = "human" => Len(transcript[i].content) >= 2
        /\ transcript[i].role = "agent" =>
               /\ Len(transcript[i].content) > 10
               /\ ~StatusNoise(transcript[i].content)

\* a returned transcript with a human turn and an agent turn, the agent turn
\* emitted by the final flush
C2_Witness ==
    /\ pc = "done"
    /\ TurnsOf(transcript, "human") # {}
    /\ TurnsOf(transcript, "agent") # {}
    /\ current_ai # <<>>
    /\ transcript[Len(transcript)].role = "agent"

(***************************************************************************)
(* C3                                                                      *)
(***************************************************************************)

\* c = n(p) with the "(" at position k, n a non-empty run of word characters
\* and p free of ")"
HasCallShape(c, k) ==
    /\ 1 < k /\ k < Len(c)
    /\ c[k] = "(" /\ c[Len(c)] = ")"
    /\ \A i \in 1..(k - 1) : c[i] \in WordChars
    /\ \A i \in (k + 1)..(Len(c) - 1) : c[i] # ")"

\* the tool call the claim describes for the content c = n(p)
FreshCall(c, k) ==
    [tool_name |-> SubSeq(c, 1, k - 1), parameters |-> SubSeq(c, k + 1, Len(c) - 1),
     output |-> <<>>, content |-> c]

\* the step reads l, or returns on the input made of l alone
ReadsOrReturnsOn(l) == ReadsLine(l) \/ (pc' = "done" /\ lines' = <<l>>)

\* reading the start line l, of content c = n(p), puts FreshCall in flight; and
\* the return on the input made of l alone gives one tool_call turn and one
\* tool_calls entry
StartsCall(l, c) ==
    \A k \in 1..Len(c) :
        HasCallShape(c, k) =>
            /\ ReadsLine(l) => current_tool_call' = <<FreshCall(c, k)>>
            /\ (pc' = "done" /\ lines' = <<l>>) =>
                   /\ result'[1].transcript = <<Turn("tool_call", c)>>
                   /\ result'[1].tool_calls = <<FreshCall(c, k)>>
                   /\ result'[1].tool_call_count = 1

\* C3 (as stated): every agent-or-tool-call start line whose content has the
\* shape name(parameters) starts a new in-flight tool call with that name,
\* those parameters, empty output and preview name(parameters); alone in the
\* input it yields exactly one tool_call turn and one tool_calls entry.
C3_AnyCallShapeStartsCall ==
    [][\A l \in Catalog :
          (ReadsOrReturnsOn(l) /\ IsAgentStartLine(l))
          => StartsCall(l, GlyphContent(Strip(l)))]_vars

\* C3 (amended): the same, for a content that is longer than 5 characters and
\* does not match the status-noise pattern.
C3_KeptCallShapeStartsCall ==
    [][\A l \in Catalog :
          (/\ ReadsOrReturnsOn(l)
           /\ IsAgentStartLine(l)
           /\ Len(GlyphContent(Strip(l))) > 5
           /\ ~StatusNoise(GlyphContent(Strip(l))))
          => StartsCall(l, GlyphContent(Strip(l)))]_vars

\* the result of the input made of the one line "U23FA Read(x)"
C3_Witness ==
    /\ pc = "done"
    /\ lines = << <<"U23FA", " ", "R", "e", "a", "d", "(", "x", ")">> >>
    /\ result[1].tool_calls =
           << [tool_name |-> <<"R", "e", "a", "d">>, parameters |-> <<"x">>,
               output |-> <<>>, content |-> <<"R", "e", "a", "d", "(", "x", ")">>] >>
    /\ result[1].transcript = <<Turn("tool_call", <<"R", "e", "a", "d", "(", "x", ")">>)>>

(***************************************************************************)
(* C4                                                                      *)
(***************************************************************************)

\* the position in lines of the start line of the tool call in flight
LastStartLine == CHOOSE i \in 1..Len(lines) :
    /\ IsAgentStartLine(lines[i])
    /\ \A j \in (i + 1)..Len(lines) : ~IsAgentStartLine(lines[j])

\* the remainders of the tool-result lines read since that start line, in order
ResultRemainders ==
    LET after == SubSeq(lines, LastStartLine + 1, Len(lines))
        marked == SelectSeq(after, LAMBDA l : HasResultMarker(Strip(l)))
    IN  [i \in 1..Len(marked) |-> Strip(Tail(Strip(marked[i])))]

\* C4: after one or more tool-result lines for the in-flight tool call, its
\* output is the newline-joined remainders of those lines in order and its
\* preview is name(parameters), the arrow, the first 100 characters of that
\* output, and "..." exactly when the output is longer than 100 characters.
C4_PreviewOfAccumulatedOutput ==
    (current_tool_call # <<>> /\ ResultRemainders # <<>>) =>
        LET tc == current_tool_call[1]
            out == JoinWith(ResultRemainders, <<"\n">>)
        IN  /\ tc.output = out
            /\ tc.content =
                   tc.tool_name \o <<"(">> \o tc.parameters \o <<")">>
                   \o <<" ", "U2192", " ">>
                   \o (IF Len(out) > 100 THEN SubSeq(out, 1, 100) \o <<".", ".", ".">>
                       ELSE out)

(***************************************************************************)
(* C5                                                                      *)
(***************************************************************************)

\* the turns the final flushes add when each one follows the rule of its
\* mid-stream flush (emit when the content is new, and record it as seen), in
\* the order human accumulator, in-flight tool call, agent accumulator
FinalTurnsByMidStreamRules ==
    LET human_text == JoinedText(current_human)
        human_ok == current_human # <<>> /\ Len(human_text) > 1
        h == IF human_ok /\ human_text \notin seen_interactions
             THEN <<Turn("human", human_text)>> ELSE <<>>
        s1 == IF human_ok THEN seen_interactions \cup {human_text}
              ELSE seen_interactions
        t == IF current_tool_call # <<>> /\ current_tool_call[1].content \notin s1
             THEN <<Turn("tool_call", current_tool_call[1].content)>> ELSE <<>>
        s2 == IF current_tool_call # <<>> THEN s1 \cup {current_tool_call[1].content}
              ELSE s1
        ai_text == JoinedText(current_ai)
        a == IF /\ current_ai # <<>>
                /\ Len(ai_text) > 10
                /\ ~StatusNoise(ai_text)
                /\ ai_text \notin s2
             THEN <<Turn("agent", ai_text)>> ELSE <<>>
    IN  h \o t \o a

\* C5: at end of input the pending state is flushed in the order human
\* accumulator, in-flight tool call, agent accumulator, each flush under the
\* dedup, length and noise rules of the corresponding mid-stream flush.
C5_FinalFlushLikeMidStream ==
    [][(pc = "loop" /\ pc' = "done") =>
          transcript' = transcript \o FinalTurnsByMidStreamRules]_vars

(***************************************************************************)
(* C6                                                                      *)
(***************************************************************************)

RECURSIVE ContentsInOrder(_, _)
\* the contents of the turns of role r in tr, in the order of tr
ContentsInOrder(tr, r) ==
    IF tr = <<>> THEN <<>>
    ELSE (IF Head(tr).role = r THEN <<Head(tr).content>> ELSE <<>>)
         \o ContentsInOrder(Tail(tr), r)

\* C6: in every returned result, human_inputs is the contents of the human
\* turns of transcript in transcript order, ai_responses the contents of the
\* agent turns in transcript order, and human_count, ai_count, tool_call_count
\* are the lengths of human_inputs, ai_responses and tool_calls.
C6_DerivedViews ==
    pc = "done" =>
        LET r == result[1]
        IN  /\ r.transcript = transcript
            /\ r.tool_calls = tool_calls
            /\ r.human_inputs = ContentsInOrder(r.transcript, "human")
            /\ r.ai_responses = ContentsInOrder(r.transcript, "agent")
            /\ r.human_count = Len(r.human_inputs)
            /\ r.human_count = Cardinality(TurnsOf(r.transcript, "human"))
            /\ r.ai_count = Len(r.ai_responses)
            /\ r.ai_count = Cardinality(TurnsOf(r.transcript, "agent"))
            /\ r.tool_call_count = Len(r.tool_calls)

\* a result with one turn of each of the three roles
C6_Witness ==
    /\ pc = "done"
    /\ result[1].human_count = 1
    /\ result[1].ai_count = 1
    /\ result[1].tool_call_count = 1
    /\ Len(result[1].transcript) = 3

(***************************************************************************)
(* C7                                                                      *)
(***************************************************************************)

\* no line read so far is a human-prompt start or an agent-or-tool-call start
NoStartLineRead ==
    \A i \in 1..Len(lines) : ~IsHumanStartLine(lines[i]) /\ ~IsAgentStartLine(lines[i])

\* C7: on an input with no human-prompt start line and no agent-or-tool-call
\* start line the segmenter state never leaves its initial value, and the
\* result has an empty transcript, no tool calls and three counts of zero.
C7_NoStartNoState ==
    NoStartLineRead =>
        /\ current_human = <<>>
        /\ current_ai = <<>>
        /\ current_tool_call = <<>>
        /\ seen_interactions = {}
        /\ transcript = <<>>
        /\ tool_calls = <<>>
        /\ pc = "done" =>
               /\ result[1].transcript = <<>>
               /\ result[1].tool_calls = <<>>
               /\ result[1].human_inputs = <<>>
               /\ result[1].ai_responses = <<>>
               /\ result[1].human_count = 0
               /\ result[1].ai_count = 0
               /\ result[1].tool_call_count = 0

\* the return on an input of a tool-result line, a plain line and a line that
\* starts with ">" and no space
C7_Witness ==
    /\ pc = "done"
    /\ NoStartLineRead
    /\ \E i \in 1..Len(lines) : HasResultMarker(Strip(lines[i]))
    /\ \E i \in 1..Len(lines) : lines[i] = <<"p", "l", "a", "i", "n", " ", "t", "e", "x", "t">>
    /\ \E i \in 1..Len(lines) : lines[i] = <<">", "a", "b", "c">>

(***************************************************************************)
(* C8                                                                      *)
(***************************************************************************)

\* l is an agent-or-tool-call start line whose content is status noise
IsNoiseStartLine(l) == IsAgentStartLine(l) /\ StatusNoise(GlyphContent(Strip(l)))

\* C8: an agent-or-tool-call start line whose content matches the status-noise
\* pattern adds nothing to the agent accumulator and starts no tool call; an
\* input made only of such lines produces zero turns.
C8_NoiseStartAddsNothing ==
    [][/\ \A l \in Catalog :
            (ReadsLine(l) /\ IsNoiseStartLine(l)) =>
                /\ current_ai' = current_ai
                /\ current_tool_call' = <<>>
       /\ (/\ pc' = "done"
           /\ lines' # <<>>
           /\ \A i \in 1..Len(lines') : IsNoiseStartLine(lines'[i])) =>
              /\ result'[1].transcript = <<>>
              /\ result'[1].tool_calls = <<>>]_vars

\* the return on an input of two or more status-noise start lines, one of them
\* of the shape name(parameters)
C8_Witness ==
    /\ pc = "done"
    /\ Len(lines) >= 2
    /\ \A i \in 1..Len(lines) : IsNoiseStartLine(lines[i])
    /\ \E i \in 1..Len(lines) : ToolShape(GlyphContent(Strip(lines[i])))
    /\ result[1].transcript = <<>>

(***************************************************************************)
(* C9                                                                      *)
(***************************************************************************)

\* l is an agent narrative line: a start line whose content is kept and has
\* not the shape of a tool call
IsNarrativeLine(l) ==
    /\ IsAgentStartLine(l)
    /\ Len(GlyphContent(Strip(l))) > 5
    /\ ~StatusNoise(GlyphContent(Strip(l)))
    /\ \A k \in 1..Len(GlyphContent(Strip(l))) : ~HasCallShape(GlyphContent(Strip(l)), k)

\* C9 (as stated): two consecutive identical agent narrative lines collapse to
\* one agent turn that carries the content of one such line.
C9_RepeatSuppressed ==
    \A l \in Catalog :
        (IsNarrativeLine(l) /\ lines = <<l, l>> /\ pc = "done") =>
            /\ Cardinality(TurnsOf(transcript, "agent")) = 1
            /\ \A i \in TurnsOf(transcript, "agent") :
                   transcript[i].content = GlyphContent(Strip(l))

\* the content of l twice, joined by one space
Doubled(l) == GlyphContent(Strip(l)) \o <<" ">> \o GlyphContent(Strip(l))

\* C9 (amended): the second of two consecutive identical agent narrative lines
\* is appended to the agent accumulator after the first; when the two lines are
\* the whole input the transcript holds no other turn than one agent turn whose
\* content is the line's content twice, joined by one space, and holds that
\* turn exactly when this joined text does not match the status-noise pattern.
C9_RepeatConcatenated ==
    [][\A l \in Catalog :
          /\ (/\ ReadsLine(l)
              /\ lines # <<>>
              /\ lines[Len(lines)] = l
              /\ IsNarrativeLine(l)) =>
                 /\ Len(current_ai) >= 1
                 /\ current_ai[Len(current_ai)] = GlyphContent(Strip(l))
                 /\ current_ai' = Append(current_ai, GlyphContent(Strip(l)))
          /\ (pc' = "done" /\ lines' = <<l, l>> /\ IsNarrativeLine(l)) =>
                 transcript' = IF StatusNoise(Doubled(l)) THEN <<>>
                               ELSE <<Turn("agent", Doubled(l))>>]_vars

\* the return on an input of one narrative line twice, with its one agent turn
C9_Witness ==
    /\ pc = "done"
    /\ Len(lines) = 2
    /\ lines[1] = lines[2]
    /\ IsNarrativeLine(lines[1])
    /\ transcript = <<Turn("agent", Doubled(lines[1]))>>

(***************************************************************************)
(* C10                                                                     *)
(***************************************************************************)

\* l is an unmarked plain line longer than 3 characters
IsPlainLine(l) ==
    /\ Len(Strip(l)) > 3
    /\ Strip(l)[1] # ">"
    /\ Strip(l)[1] \notin Glyphs
    /\ Strip(l)[1] # ResultMarker

\* ls is blank lines, then a human prompt at position k, then plain lines
IsPromptThenPlain(ls, k) ==
    /\ k \in 1..Len(ls)
    /\ \A i \in 1..(k - 1) : Strip(ls[i]) = <<>>
    /\ IsHumanStartLine(ls[k])
    /\ \A i \in (k + 1)..Len(ls) : IsPlainLine(ls[i])

\* X of the prompt "> X", followed by the lines after position k, joined by
\* single spaces
PromptAndPlain(ls, k) ==
    JoinWith(<<Strip(SubSeq(Strip(ls[k]), 3, Len(Strip(ls[k]))))>>
               \o [i \in 1..(Len(ls) - k) |-> Strip(ls[k + i])],
             <<" ">>)

\* C10 (as stated): an input whose first non-blank line is a human prompt
\* "> X" and whose other lines are unmarked plain lines longer than 3
\* characters yields exactly one turn, of role human, whose content is X
\* followed by those lines in order joined by single spaces.
C10_PromptYieldsOneHumanTurn ==
    \A k \in 1..Len(lines) :
        (pc = "done" /\ IsPromptThenPlain(lines, k)) =>
            transcript = <<Turn("human", PromptAndPlain(lines, k))>>

\* C10 (amended): the same, when that content has at least 2 characters; a
\* prompt "> X" with X of one character and no continuation line yields no turn.
C10_PromptYieldsHumanTurnOfTwoChars ==
    \A k \in 1..Len(lines) :
        (pc = "done" /\ IsPromptThenPlain(lines, k)) =>
            transcript = IF Len(PromptAndPlain(lines, k)) >= 2
                         THEN <<Turn("human", PromptAndPlain(lines, k))>>
                         ELSE <<>>

\* the return on a blank line, a prompt and a plain line
C10_Witness ==
    /\ pc = "done"
    /\ Len(lines) >= 3
    /\ IsPromptThenPlain(lines, 2)
    /\ transcript = <<Turn("human", PromptAndPlain(lines, 2))>>
    /\ Len(current_human) = 2

(***************************************************************************)
(* C11                                                                     *)
(***************************************************************************)

\* the branches of the if/elif chain whose condition the line l meets in the
\* current state
BranchesTaking(l) ==
    (IF TakesBlank(l) THEN {"blank"} ELSE {})
    \cup (IF TakesHumanStart(l) THEN {"human start"} ELSE {})
    \cup (IF TakesAgentStart(l) THEN {"agent start"} ELSE {})
    \cup (IF TakesToolResult(l) THEN {"tool result"} ELSE {})
    \cup (IF TakesHumanContinuation(l) THEN {"human continuation"} ELSE {})
    \cup (IF TakesAgentContinuation(l) THEN {"agent continuation"} ELSE {})
    \cup (IF TakesNothing(l) THEN {"dropped"} ELSE {})

\* the branches of the loop body the step is a run of, on the line l
BranchesRun(l) ==
    (IF SkipBlank(l) THEN {"blank"} ELSE {})
    \cup (IF HumanStart(l) THEN {"human start"} ELSE {})
    \cup (IF AgentStart(l) THEN {"agent start"} ELSE {})
    \cup (IF ToolResult(l) THEN {"tool result"} ELSE {})
    \cup (IF HumanContinuation(l) THEN {"human continuation"} ELSE {})
    \cup (IF AgentContinuation(l) THEN {"agent continuation"} ELSE {})
    \cup (IF Dropped(l) THEN {"dropped"} ELSE {})

\* the dict the final flushes and the return would give if the input ended
\* in the current state
ResultHere == ResultOf(FinalTranscript, tool_calls \o current_tool_call)

\* inside the loop every line meets the condition of exactly one branch, and
\* the final flushes and the return are defined; after the loop the result
\* has been returned
TotalHere ==
    /\ pc \in {"loop", "done"}
    /\ pc = "loop" =>
           /\ result = <<>>
           /\ DOMAIN ResultHere = {"transcript", "human_inputs", "ai_responses",
                                   "tool_calls", "human_count", "ai_count",
                                   "tool_call_count"}
           /\ SubSeq(ResultHere.transcript, 1, Len(transcript)) = transcript
           /\ Len(lines) < MaxLines =>
                  \A l \in Catalog : Cardinality(BranchesTaking(l)) = 1
    /\ pc = "done" => Len(result) = 1

\* a step of the loop reads one line and is a run of the one branch whose
\* condition the line meets; the step that ends the loop returns the result
\* of the final flushes
OneLinePerStep ==
    /\ pc = "loop"
    /\ \/ /\ pc' = "loop"
          /\ \E l \in Catalog :
                /\ ReadsLine(l)
                /\ Cardinality(BranchesRun(l)) = 1
                /\ BranchesRun(l) = BranchesTaking(l)
       \/ /\ pc' = "done"
          /\ lines' = lines
          /\ result' = <<ResultHere>>

C12_Idempotent ==
    pc = "cleaned" => Sanitized(cleaned_content) = cleaned_content

(***************************************************************************)
(* C13                                                                     *)
(***************************************************************************)

\* a control character: a code below printable ASCII, DEL, or the C1 range
IsControl(c) ==
    /\ c \in DOMAIN ControlCode
    /\ (ControlCode[c] < 32 \/ ControlCode[c] \in 127..159)

\* the control characters the text s holds
ControlsIn(s) == {s[i] : i \in {k \in 1..Len(s) : IsControl(s[k])}}

\* C13 as stated: the output of the sanitizer holds no control character other
\* than newline.
C13_NoControlButNewline ==
    pc = "cleaned" => ControlsIn(cleaned_content) \subseteq {"\n"}

\* C13: the output of the sanitizer holds no control character other than
\* newline and horizontal tab.
C13_NoControlButNewlineOrTab ==
    pc = "cleaned" => ControlsIn(cleaned_content) \subseteq {"\n", "\t"}

\* a text with an escape character that is no part of an escape sequence, a
\* tab and a newline, cleaned: the escape character is gone, the tab and the
\* newline are kept
C13_Witness ==
    /\ pc = "cleaned"
    /\ ControlsIn(content) = {"ESC", "\t", "\n"}
    /\ ControlsIn(cleaned_content) = {"\t", "\n"}

(***************************************************************************)
(* C14                                                                     *)
(***************************************************************************)

\* C14: in every state reached while processing any line sequence, at most one
\* of the human accumulator and the agent accumulator is non-empty.
C14_OneAccumulatorOpen == current_human = <<>> \/ current_ai = <<>>

\* a human prompt read while an agent narrative was open: the human
\* accumulator is open and the agent accumulator has been emptied
C14_Witness ==
    /\ pc = "loop"
    /\ Len(lines) = 2
    /\ IsNarrativeLine(lines[1])
    /\ IsHumanStartLine(lines[2])
    /\ current_human # <<>>
    /\ current_ai = <<>>

(***************************************************************************)
(* C15                                                                     *)
(***************************************************************************)

\* the line l is status noise and meets the human-continuation rule
NoiseForHuman(l) == StatusNoise(Strip(l)) /\ TakesHumanContinuation(l)

\* the line l is status noise and, but for that, meets the agent-continuation
\* rule: no earlier rule takes it, an agent narrative is open, the line is
\* longer than 3 characters and starts with no prompt, glyph or marker
NoiseForAgent(l) ==
    /\ StatusNoise(Strip(l))
    /\ Strip(l) # <<>>
    /\ ~IsHumanStart(Strip(l))
    /\ ~IsGlyphStart(Strip(l))
    /\ ~(HasResultMarker(Strip(l)) /\ current_tool_call # <<>>)
    /\ ~HumanContinues(Strip(l), current_human, current_ai)
    /\ current_ai # <<>>
    /\ ~StartsWith(Strip(l), <<">">>)
    /\ ~HasGlyph(Strip(l))
    /\ ~HasResultMarker(Strip(l))
    /\ Len(Strip(l)) > ContinuationMinLen

\* the step changes nothing of the segmenter but the lines read
OnlyReads ==
    UNCHANGED <<transcript, seen_interactions, current_human, current_ai,
                current_tool_call, tool_calls, origin>>

\* C15 as stated: status noise is filtered only on agent-or-tool-call start
\* lines and at flush time: a noise line that otherwise meets the human- or
\* the agent-continuation rule is appended to the open accumulator.
C15_NoiseContinuesEither ==
    [][\A l \in Catalog :
          ReadsLine(l) =>
             /\ NoiseForHuman(l) => current_human' = Append(current_human, Strip(l))
             /\ NoiseForAgent(l) => current_ai' = Append(current_ai, Strip(l))]_vars

\* C15: status noise is filtered on agent-or-tool-call start lines, on
\* agent-continuation lines and at flush time: a noise line that meets the
\* human-continuation rule is appended to the open human accumulator; a noise
\* line that otherwise meets the agent-continuation rule is dropped.
C15_NoiseContinuesHumanOnly ==
    [][\A l \in Catalog :
          ReadsLine(l) =>
             /\ NoiseForHuman(l) =>
                   /\ current_human' = Append(current_human, Strip(l))
                   /\ UNCHANGED <<transcript, seen_interactions, current_ai,
                                  current_tool_call, tool_calls>>
             /\ NoiseForAgent(l) => OnlyReads]_vars

\* a noise line read after a human prompt that an agent start line has not
\* closed yet: the prompt has the noise line as its second fragment
C15_Witness ==
    /\ pc = "loop"
    /\ Len(lines) = 2
    /\ IsHumanStartLine(lines[1])
    /\ StatusNoise(Strip(lines[2]))
    /\ current_human = <<PromptText(Strip(lines[1])), Strip(lines[2])>>

(***************************************************************************)
(* C16                                                                     *)
(***************************************************************************)

\* the content of the tool call in flight was seen before the step flushes the
\* call: in an earlier flush, or in the flush of the open human prompt that
\* the same line makes first
CallSeen ==
    \/ current_tool_call[1].content \in seen_interactions
    \/ /\ current_human # <<>>
       /\ HumanKeeps(JoinedText(current_human))
       /\ JoinedText(current_human) = current_tool_call[1].content

\* the step has put the tool call in flight at the end of the transcript
CallEmitted ==
    /\ Len(transcript') > Len(transcript)
    /\ transcript'[Len(transcript')] = Turn("tool_call", current_tool_call[1].content)

\* the tool call the line l leaves in flight: its own if it starts one, none
\* otherwise
CallLeftBy(l) ==
    IF ContentKept(GlyphContent(Strip(l))) /\ ToolShape(GlyphContent(Strip(l)))
    THEN <<NewToolCall(GlyphContent(Strip(l)))>>
    ELSE <<>>

\* C16: every agent-or-tool-call start line, whatever its content, closes the
\* tool call in flight: the call is appended to tool_calls and emitted as a
\* tool_call turn unless its content was already seen, and only the line's own
\* call, if it starts one, is in flight afterwards; a tool-result line read
\* while no call is in flight attaches to no call and is dropped.
C16_StartLineClosesCall ==
    [][\A l \in Catalog :
          ReadsLine(l) =>
             /\ (IsAgentStartLine(l) /\ current_tool_call # <<>>) =>
                   /\ tool_calls' = Append(tool_calls, current_tool_call[1])
                   /\ CallEmitted <=> ~CallSeen
                   /\ current_tool_call[1].content \in seen_interactions'
                   /\ current_tool_call' = CallLeftBy(l)
             /\ (HasResultMarker(Strip(l)) /\ current_tool_call = <<>>) =>
                   OnlyReads]_vars

\* a tool-call start line, a start line of status noise and a tool-result
\* line have been read: the call is closed without output and none is in flight
C16_Witness ==
    /\ pc = "loop"
    /\ Len(lines) = 3
    /\ IsNoiseStartLine(lines[2])
    /\ HasResultMarker(Strip(lines[3]))
    /\ Len(tool_calls) = 1
    /\ tool_calls[1].output = <<>>
    /\ transcript = <<Turn("tool_call", tool_calls[1].content)>>
    /\ current_tool_call = <<>>

(***************************************************************************)
(* C17                                                                     *)
(***************************************************************************)

\* C17: the transcript is ordered like the input: of any two turns of the
\* result, the one whose first contributing line comes earlier in the input
\* comes earlier in the transcript.
C17_TurnsInInputOrder ==
    pc = "done" =>
        /\ Len(origin.turns) = Len(result[1].transcript)
        /\ \A i, j \in 1..Len(result[1].transcript) :
              origin.turns[i] < origin.turns[j] => i < j

(***************************************************************************)
(* C18                                                                     *)
(***************************************************************************)

\* l is an indented line: whitespace, then text
IsIndentedLine(l) == Strip(l) # <<>> /\ l[1] \in WhiteSpace

\* no rule before the human continuation takes the line l
ReachesContinuation(l) ==
    /\ Strip(l) # <<>>
    /\ ~IsHumanStartLine(l)
    /\ ~IsAgentStartLine(l)
    /\ ~(HasResultMarker(Strip(l)) /\ current_tool_call # <<>>)

\* C18: while a human accumulator is open, an indented line is appended to it
\* even when it has 3 characters or fewer; an unindented line is appended only
\* when it is longer than 3 characters, the agent accumulator is empty and the
\* line starts with no prompt, glyph or tool-result marker.
C18_IndentedLineContinuesHuman ==
    [][\A l \in Catalog :
          (ReadsLine(l) /\ current_human # <<>> /\ ReachesContinuation(l)) =>
             /\ IsIndentedLine(l) =>
                   current_human' = Append(current_human, Strip(l))
             /\ (~IsIndentedLine(l) /\ current_human' # current_human) =>
                   /\ current_human' = Append(current_human, Strip(l))
                   /\ current_ai = <<>>
                   /\ IsPlainLine(l)]_vars

(***************************************************************************)
(* C19                                                                     *)
(***************************************************************************)

\* C19: an agent-or-tool-call start line whose content is longer than 5
\* characters, is not status noise and has not the exact shape
\* name(parameters) creates no tool call and no tool_calls entry: its content
\* is appended to the agent accumulator as narrative.
C19_MalformedCallIsNarrative ==
    [][\A l \in Catalog :
          (ReadsLine(l) /\ IsNarrativeLine(l)) =>
             /\ current_tool_call' = <<>>
             /\ tool_calls' = tool_calls \o current_tool_call
             /\ current_ai' = Append(current_ai, GlyphContent(Strip(l)))]_vars

\* a start line with nested parentheses has been read as the first line: its
\* content is the agent narrative and there is no tool call
C19_Witness ==
    /\ pc = "loop"
    /\ Len(lines) = 1
    /\ IsNarrativeLine(lines[1])
    /\ \E i, j \in 1..Len(lines[1]) : i < j /\ lines[1][i] = "(" /\ lines[1][j] = "("
    /\ current_ai = <<GlyphContent(Strip(lines[1]))>>
    /\ current_tool_call = <<>>
    /\ tool_calls = <<>>

(***************************************************************************)
(* C20                                                                     *)
(***************************************************************************)

\* no line read so far is an agent-or-tool-call start line
NoAgentStartRead == \A i \in 1..Len(lines) : ~IsAgentStartLine(lines[i])

\* the last human-prompt start line read so far
LastPrompt ==
    lines[CHOOSE i \in 1..Len(lines) :
            /\ IsHumanStartLine(lines[i])
            /\ \A j \in (i + 1)..Len(lines) : ~IsHumanStartLine(lines[j])]

\* a human-prompt start line read while a human prompt is open starts the
\* accumulator afresh and emits nothing
PromptReplacesPrompt ==
    \A l \in Catalog :
        (ReadsLine(l) /\ IsHumanStartLine(l) /\ current_human # <<>>) =>
           /\ current_human' = <<PromptText(Strip(l))>>
           /\ UNCHANGED <<transcript, seen_interactions>>

\* the result of an input with no agent-or-tool-call start line has no human
\* turn but that of its last prompt
OnlyLastPromptReturned ==
    (pc' = "done" /\ NoAgentStartRead) =>
        \A i \in TurnsOf(result'[1].transcript, "human") :
            /\ i = 1
            /\ StartsWith(result'[1].transcript[i].content,
                          PromptText(Strip(LastPrompt)))

\* C20: a human-prompt start line that arrives while a human accumulator is
\* open replaces the accumulator without flushing it: the text accumulated
\* before is never emitted, and of consecutive human prompts with no
\* agent-or-tool-call start line between them only the last can appear in the
\* transcript.
C20_PromptReplacesPrompt == [][PromptReplacesPrompt /\ OnlyLastPromptReturned]_vars

\* the return on two different human prompts, the first long enough for a
\* turn: the first is in no turn of the result
C20_Witness ==
    /\ pc = "done"
    /\ Len(lines) = 2
    /\ IsHumanStartLine(lines[1])
    /\ IsHumanStartLine(lines[2])
    /\ lines[1] # lines[2]
    /\ HumanKeeps(PromptText(Strip(lines[1])))
    /\ \A i \in 1..Len(result[1].transcript) :
          result[1].transcript[i].content # PromptText(Strip(lines[1]))

(***************************************************************************)
(* C21                                                                     *)
(***************************************************************************)

\* the output of the tool call tc after one more tool-result line l
OutputWith(tc, l) ==
    IF tc.output = <<>> THEN ResultContent(Strip(l))
    ELSE tc.output \o <<"\n">> \o ResultContent(Strip(l))

\* C21: a human-prompt start line leaves the tool call in flight and the
\* tool_calls list unchanged, so a tool-result line read while the prompt is
\* open is appended to the output of that tool call and not to the human
\* accumulator.
C21_PromptKeepsCallInFlight ==
    [][\A l \in Catalog :
          ReadsLine(l) =>
             /\ IsHumanStartLine(l) => UNCHANGED <<current_tool_call, tool_calls>>
             /\ (/\ HasResultMarker(Strip(l))
                 /\ current_human # <<>>
                 /\ current_tool_call # <<>>) =>
                   /\ Len(current_tool_call') = 1
                   /\ current_tool_call'[1].output = OutputWith(current_tool_call[1], l)
                   /\ current_tool_call'[1].tool_name = current_tool_call[1].tool_name
                   /\ current_tool_call'[1].parameters = current_tool_call[1].parameters
                   /\ UNCHANGED <<current_human, tool_calls>>]_vars

\* a tool-call start line, a human prompt and a tool-result line with text
\* have been read: the call is in flight with that text as its output, and the
\* prompt holds its own text only
C21_Witness ==
    /\ pc = "loop"
    /\ Len(lines) = 3
    /\ IsAgentStartLine(lines[1])
    /\ IsHumanStartLine(lines[2])
    /\ HasResultMarker(Strip(lines[3]))
    /\ ResultContent(Strip(lines[3])) # <<>>
    /\ Len(current_tool_call) = 1
    /\ current_tool_call[1].output = ResultContent(Strip(lines[3]))
    /\ current_human = <<PromptText(Strip(lines[2]))>>
    /\ tool_calls = <<>>

(***************************************************************************)
(* C22                                                                     *)
(***************************************************************************)

\* the line l puts a tool call in flight
StartsACall(l) == IsAgentStartLine(l) /\ CallLeftBy(l) # <<>>

\* the lines read so far that put a tool call in flight, in their order
CallLines == SelectSeq(lines, StartsACall)

\* the tool calls closed so far, then the one in flight; after the return,
\* the tool calls returned
CallsSoFar ==
    IF pc = "done" THEN result[1].tool_calls ELSE tool_calls \o current_tool_call

\* the number of tool_call turns of the transcript tr
CallTurns(tr) == Cardinality(TurnsOf(tr, "tool_call"))

\* the tool calls are those the lines read have started, one for each and in
\* their order, and the tool_call turns are no more than the calls closed
CallsOnceInOrder ==
    /\ Len(CallsSoFar) = Len(CallLines)
    /\ \A k \in 1..Len(CallLines) :
          /\ CallsSoFar[k].tool_name = ToolName(GlyphContent(Strip(CallLines[k])))
          /\ CallsSoFar[k].parameters = ToolParameters(GlyphContent(Strip(CallLines[k])))
    /\ CallTurns(transcript) <= Len(tool_calls)
    /\ pc = "done" =>
          /\ result[1].tool_calls = tool_calls
          /\ result[1].tool_call_count = Len(tool_calls)
          /\ CallTurns(result[1].transcript) <= result[1].tool_call_count

\* the step closes the tool call in flight: it reads an agent-or-tool-call
\* start line, or the input ends
ClosesCall ==
    /\ current_tool_call # <<>>
    /\ \/ pc' = "done"
       \/ \E l \in Catalog : ReadsLine(l) /\ IsAgentStartLine(l)

\* the step closes a tool call whose preview is suppressed as content
\* already seen
SuppressesCall ==
    /\ ClosesCall
    /\ IF pc' = "done"
       THEN current_tool_call[1].content \in seen_interactions
       ELSE CallSeen

\* a step that closes the call in flight appends it to tool_calls, and no
\* other step changes tool_calls; the tool_call turns fall behind the tool
\* calls closed by one exactly in a step that suppresses a preview
CallClosedOnce ==
    /\ tool_calls' = IF ClosesCall THEN Append(tool_calls, current_tool_call[1])
                     ELSE tool_calls
    /\ Len(tool_calls') - CallTurns(transcript')
          = Len(tool_calls) - CallTurns(transcript)
            + (IF SuppressesCall THEN 1 ELSE 0)

\* C22: every tool call put in flight is appended to tool_calls exactly once,
\* at the next agent-or-tool-call start line or at the end of the input, in
\* the order the calls were started and whether or not its preview is
\* emitted; the tool_call turns of the transcript are never more than
\* tool_call_count, and fewer exactly when a preview was suppressed as
\* content already seen.
C22_CallsClosedOnceInOrder == []CallsOnceInOrder /\ [][CallClosedOnce]_vars

\* the return on an input that starts the same tool call twice: two tool
\* calls are returned and one tool_call turn, the second preview being
\* suppressed
C22_Witness ==
    /\ pc = "done"
    /\ Len(CallLines) = 2
    /\ result[1].tool_call_count = 2
    /\ CallTurns(result[1].transcript) = 1

====
